---- MODULE Spec2Model ----
(***************************************************************************)
(* Model of utils/blockchain.ts (src/unnamed/part_009): the Blockchain     *)
(* class (genesis, addBlock, mineBlock, calculateHash, isChainValid,       *)
(* saveBlockToFirebase, loadFromFirebase) and the exported operations      *)
(* recordVoteOnBlockchain, verifyBlockchain, getElectionVotes and          *)
(* initializeBlockchain, run by several app sessions against one shared    *)
(* Firestore collection "blockchain".                                      *)
(*                                                                         *)
(* Strings are sequences of tokens, so that the "+" of calculateHash is    *)
(* sequence concatenation.  SHA-256 is modelled as a collision-free        *)
(* digest: its first PrefixLen characters are computed from the input      *)
(* (they decide the proof-of-work test) and the rest of the digest is the  *)
(* bracketed input itself.  The hexadecimal alphabet is scaled down to     *)
(* HexChars so that a nonce search takes a handful of steps.               *)
(***************************************************************************)
EXTENDS Naturals, Sequences, FiniteSets

\* ------------------------------------------------------------------ bounds
MaxDifficulty == 2
MaxTime == 2
MaxIndex == 1
NumSessions == 2
MaxAdds == 2
MaxVotes == 2
MaxFaults == 1
MaxChainIndex == 2
MaxSaved == 3

Sessions == 1..NumSessions
Elections == {"E1"}
Candidates == {1, 2}
Voters == {"U1", "U2"}
Difficulties == 0..MaxDifficulty
DefaultDifficulty == 2

VARIABLES
  difficulty,   \* ENV.blockchain.difficulty
  now,          \* new Date().getTime(); one step reads it once
  store,        \* the Firestore collection "blockchain"
  pc,           \* per session: where its call in progress is waiting
  chain,        \* per session: chain of the Blockchain object of that call
  pending,      \* per session: the block its setDoc is about to write
  loadFailed,   \* per session: the getDocs of its call in progress threw
  returned,     \* the call that finished last: what it did and returned
  receipts,     \* every transactionHash returned with success so far
  ledgerChain,  \* chain of a Blockchain object used directly
  adds,         \* addBlock calls made on that object
  faults,       \* store faults so far: calls that threw, outside rewrites
  election,     \* the elections/E1 document: voters and candidate counts
  transactions, \* the transactions collection, in order of creation
  screen        \* per session: what its voting screen holds

\* The variables of the voting screens and of castVote.
appVars == <<election, transactions, screen>>

vars == <<difficulty, now, store, pc, chain, pending, loadFailed, returned,
          receipts, ledgerChain, adds, faults, election, transactions,
          screen>>

\* ----------------------------------------------------------------- strings
DigitChars == <<"0", "1", "2", "3", "4", "5", "6", "7", "8", "9">>

\* Number.prototype.toString(): the decimal digits of n.
RECURSIVE Dec(_)
Dec(n) == IF n < 10 THEN <<DigitChars[n + 1]>>
          ELSE Dec(n \div 10) \o <<DigitChars[(n % 10) + 1]>>

\* String.prototype.substring(0, d).
Substring0(str, d) == SubSeq(str, 1, IF d < Len(str) THEN d ELSE Len(str))

\* Array(d + 1).join("0"): d zero characters.
ZeroString(d) == [j \in 1..d |-> "0"]

\* ------------------------------------------------------------------ digest
HexChars == <<"0", "f">>
Radix == Len(HexChars)
PrefixLen == MaxDifficulty

RECURSIVE Pow(_, _)
Pow(b, e) == IF e = 0 THEN 1 ELSE b * Pow(b, e - 1)

TokVal(t) == CASE t = "1" -> 1 [] t = "2" -> 2 [] t = "3" -> 3 [] t = "4" -> 4
               [] t = "5" -> 5 [] t = "6" -> 6 [] t = "7" -> 7 [] t = "8" -> 8
               [] t = "9" -> 9 [] OTHER -> 0

\* The sum of the token values of str, by halves.
RECURSIVE TokSum(_)
TokSum(str) ==
  IF Len(str) = 0 THEN 0
  ELSE IF Len(str) = 1 THEN TokVal(str[1])
  ELSE LET mid == Len(str) \div 2
       IN  TokSum(SubSeq(str, 1, mid)) + TokSum(SubSeq(str, mid + 1, Len(str)))

\* The leading PrefixLen characters of the digest of str.
DigestPrefix(str) ==
  LET m == TokSum(str) % Pow(Radix, PrefixLen)
  IN  [j \in 1..PrefixLen |->
         HexChars[((m \div Pow(Radix, PrefixLen - j)) % Radix) + 1]]

\* CryptoJS.SHA256(str).toString()
SHA256(str) == DigestPrefix(str) \o <<"[">> \o str \o <<"]">>

\* ------------------------------------------------------------------ blocks
GenesisMessage == "Blockchain Voting System Genesis Block"
GenesisData == [message |-> GenesisMessage]

\* JSON.stringify(block.data), keys in the order the object literal has them
\* (a document read back from the store is taken to keep that order).
Json(data) ==
  IF "message" \in DOMAIN data
  THEN <<"{", "message:", data.message, "}">>
  ELSE <<"{", "type:", data.type, ",", "electionId:", data.electionId, ",",
         "candidateId:">> \o Dec(data.candidateId)
       \o <<",", "voterIdHash:">> \o data.voterIdHash
       \o <<",", "voteHash:">> \o data.voteHash
       \o <<",", "timestamp:">> \o Dec(data.timestamp) \o <<"}">>

calculateHash(block) ==
  SHA256(Dec(block.index) \o block.previousHash \o Dec(block.timestamp)
         \o Json(block.data) \o Dec(block.nonce))

\* mineBlock with the loop body run at most once.
mineBlockOnce(block, d) ==
  IF Substring0(block.hash, d) # ZeroString(d)
  THEN LET b == [block EXCEPT !.nonce = block.nonce + 1]
       IN  [b EXCEPT !.hash = calculateHash(b)]
  ELSE block

\* mineBlock: the while loop, run to its exit.
RECURSIVE mineBlock(_, _)
mineBlock(block, d) ==
  IF Substring0(block.hash, d) # ZeroString(d)
  THEN LET n == block.nonce + 1
           b == [block EXCEPT !.nonce = n]
       IN  mineBlock([b EXCEPT !.hash = calculateHash(b)], d)
  ELSE block

\* The genesisBlock literal of createGenesisBlock, before mining.
GenesisCandidate(t) ==
  [index |-> 0, timestamp |-> t, data |-> GenesisData,
   previousHash |-> <<"0">>, hash |-> <<>>, nonce |-> 0]

\* createGenesisBlock: the mined genesis block pushed onto the chain.
createGenesisBlock(t, d) == mineBlock(GenesisCandidate(t), d)

\* What indexing an array outside its bounds gives.
Undefined == [undefined |-> TRUE]

\* this.chain[this.chain.length - 1]
getLatestBlock(c) == IF Len(c) = 0 THEN Undefined ELSE c[Len(c)]

\* addBlock numbering the new block like the latest one.
NewBlockSameIndex(c, data, t, d) ==
  LET previousBlock == getLatestBlock(c)
  IN  mineBlock([index |-> previousBlock.index, timestamp |-> t,
                 data |-> data, previousHash |-> previousBlock.hash,
                 hash |-> <<>>, nonce |-> 0], d)

\* The newBlock literal of addBlock, before mining.
BlockCandidate(c, data, t) ==
  LET previousBlock == getLatestBlock(c)
  IN  [index |-> previousBlock.index + 1, timestamp |-> t, data |-> data,
       previousHash |-> previousBlock.hash, hash |-> <<>>, nonce |-> 0]

\* addBlock up to chain.push: the mined block that extends chain c.
NewBlock(c, data, t, d) == mineBlock(BlockCandidate(c, data, t), d)

isChainValid(c) ==
  \A i \in 2..Len(c) :
     /\ c[i].hash = calculateHash(c[i])
     /\ c[i].previousHash = c[i - 1].hash

createVoteHash(e, c, v, t) ==
  SHA256(<<e, "|">> \o Dec(c) \o <<"|", v, "|">> \o Dec(t))

\* voteData carrying the voter id itself where its digest belongs.
VoteDataRawVoter(e, c, v, t) ==
  [type |-> "VOTE", electionId |-> e, candidateId |-> c,
   voterIdHash |-> <<v>>, voteHash |-> createVoteHash(e, c, v, t),
   timestamp |-> t]

\* voteData of recordVoteOnBlockchain.
VoteData(e, c, v, t) ==
  [type |-> "VOTE", electionId |-> e, candidateId |-> c,
   voterIdHash |-> SHA256(<<v>>), voteHash |-> createVoteHash(e, c, v, t),
   timestamp |-> t]

\* ------------------------------------------------------------------- store
\* The collection "blockchain": a function from document key (the block
\* index, printed) to the stored document, timestamp held as a Date.
ToDoc(block) == [block EXCEPT !.timestamp = [date |-> block.timestamp]]
FromDoc(doc) == [doc EXCEPT !.timestamp = doc.timestamp.date]

\* setDoc with every block written to the one document "0".
PutDocKeyZero(st, block) ==
  [k \in DOMAIN st \cup {0} |-> IF k = 0 THEN ToDoc(block) ELSE st[k]]

\* setDoc(doc(db, "blockchain", block.index.toString()), {...})
PutDoc(st, block) ==
  [k \in DOMAIN st \cup {block.index} |->
     IF k = block.index THEN ToDoc(block) ELSE st[k]]

\* orderBy("index") read as descending.
DocBeforeDescending(st, a, b) ==
  \/ st[a].index > st[b].index
  \/ st[a].index = st[b].index /\ a < b

\* query(collection, orderBy("index")): keys by index field, ties by key.
DocBefore(st, a, b) ==
  \/ st[a].index < st[b].index
  \/ st[a].index = st[b].index /\ a < b

RECURSIVE OrderedKeys(_, _)
OrderedKeys(st, keys) ==
  IF keys = {} THEN <<>>
  ELSE LET k == CHOOSE x \in keys : \A y \in keys \ {x} : DocBefore(st, x, y)
       IN  <<k>> \o OrderedKeys(st, keys \ {k})

\* The chain built by the forEach of loadFromFirebase.
LoadedChain(st) ==
  LET ks == OrderedKeys(st, DOMAIN st)
  IN  [i \in 1..Len(ks) |-> FromDoc(st[ks[i]])]

EmptyStore == [k \in {} |-> 0]

\* loadFromFirebase without the reseeding of an empty or failed read.
loadFromFirebaseNoSeed(st, ok, t, d) ==
  IF ok /\ DOMAIN st # {} THEN LoadedChain(st) ELSE <<>>

\* loadFromFirebase leaving the chain the constructor built.
loadFromFirebaseKeepsChain(st, ok, t, d) == <<createGenesisBlock(t, d)>>

\* loadFromFirebase: the chain it leaves, by outcome of getDocs.
loadFromFirebase(st, ok, t, d) ==
  IF ok /\ DOMAIN st # {} THEN LoadedChain(st)
  ELSE <<createGenesisBlock(t, d)>>

NoBlock == <<>>
NoResult == [op |-> "none"]

\* The election document as created: nobody has voted, every count is 0.
NewElection == [voters |-> {}, voteCount |-> [c \in Candidates |-> 0]]

NoScreen == [open |-> FALSE]

AppInit ==
  /\ election = NewElection
  /\ transactions = <<>>
  /\ screen = [s \in Sessions |-> NoScreen]

\* -------------------------------------------------------------------- Init
Init ==
  /\ difficulty \in Difficulties
  /\ now = 1
  /\ store = EmptyStore
  /\ pc = [s \in Sessions |-> "ready"]
  /\ chain = [s \in Sessions |-> <<>>]
  /\ pending = [s \in Sessions |-> NoBlock]
  /\ loadFailed = [s \in Sessions |-> FALSE]
  /\ returned = NoResult
  /\ receipts = {}
  /\ ledgerChain = <<>>
  /\ adds = 0
  /\ faults = 0
  /\ AppInit

\* A store call succeeds, or throws while the fault budget lasts.
StoreCall(ok) ==
  /\ ok \/ faults < MaxFaults
  /\ faults' = IF ok THEN faults ELSE faults + 1

\* The wall clock advances.
Tick ==
  /\ now < MaxTime
  /\ now' = now + 1
  /\ UNCHANGED <<difficulty, store, pc, chain, pending, loadFailed, returned,
                 receipts, ledgerChain, adds, faults>>
  /\ UNCHANGED appVars

\* ----------------------------------------------- the Blockchain class alone
\* new Blockchain()
LedgerNew ==
  /\ ledgerChain = <<>>
  /\ ledgerChain' = <<createGenesisBlock(now, difficulty)>>
  /\ adds' = 0
  /\ UNCHANGED <<difficulty, now, store, pc, chain, pending, loadFailed,
                 returned, receipts, faults>>
  /\ UNCHANGED appVars

\* await blockchain.addBlock(data): mine, push, save (a failed save is
\* caught and logged).
LedgerAddBlock(data, ok) ==
  /\ StoreCall(ok)
  /\ ledgerChain # <<>>
  /\ adds < MaxAdds
  /\ LET newBlock == NewBlock(ledgerChain, data, now, difficulty)
     IN  /\ ledgerChain' = Append(ledgerChain, newBlock)
         /\ store' = IF ok THEN PutDoc(store, newBlock) ELSE store
  /\ adds' = adds + 1
  /\ UNCHANGED <<difficulty, now, pc, chain, pending, loadFailed, returned,
                 receipts>>
  /\ UNCHANGED appVars

\* await blockchain.loadFromFirebase() on the object: the chain is emptied
\* and refilled from the collection, or reseeded when the read finds nothing
\* or throws.
LedgerLoad(ok) ==
  /\ StoreCall(ok)
  /\ ledgerChain # <<>>
  /\ ledgerChain' = loadFromFirebase(store, ok, now, difficulty)
  /\ UNCHANGED <<difficulty, now, store, pc, chain, pending, loadFailed,
                 returned, receipts, adds>>
  /\ UNCHANGED appVars

NextLedger ==
  \/ Tick
  \/ LedgerNew
  \/ \E e \in Elections, c \in Candidates, v \in Voters :
        LedgerAddBlock(VoteData(e, c, v, now), TRUE)
  \/ \E e \in Elections, c \in Candidates, v \in Voters :
        LedgerAddBlock(VoteData(e, c, v, now), FALSE)

SpecLedger == Init /\ [][NextLedger]_vars

\* The object with its loads as well.
NextObject ==
  \/ NextLedger
  \/ LedgerLoad(TRUE)
  \/ LedgerLoad(FALSE)

SpecObject == Init /\ [][NextObject]_vars

\* ------------------------------------------------- the exported operations
\* recordVoteOnBlockchain up to the setDoc call of addBlock: construct,
\* load (getDocs succeeds or throws), build voteData, mine and push.
RecordLoadTo(s, e, c, v, ok, top) ==
  /\ StoreCall(ok)
  /\ pc[s] = "ready"
  /\ Cardinality(receipts) < MaxVotes
  /\ LET loaded == loadFromFirebase(store, ok, now, difficulty)
         newBlock == NewBlock(loaded, VoteData(e, c, v, now), now, difficulty)
     IN  /\ getLatestBlock(loaded).index < top
         /\ chain' = [chain EXCEPT ![s] = Append(loaded, newBlock)]
         /\ pending' = [pending EXCEPT ![s] = newBlock]
  /\ pc' = [pc EXCEPT ![s] = "put"]
  /\ loadFailed' = [loadFailed EXCEPT ![s] = ~ok]
  /\ UNCHANGED <<difficulty, now, store, returned, receipts, ledgerChain,
                 adds>>
  /\ UNCHANGED appVars

RecordLoad(s, e, c, v, ok) == RecordLoadTo(s, e, c, v, ok, MaxIndex)

\* The setDoc of saveBlockToFirebase lands or throws (caught and logged),
\* then recordVoteOnBlockchain returns its receipt.
RecordPut(s, ok) ==
  /\ StoreCall(ok)
  /\ pc[s] = "put"
  /\ store' = IF ok THEN PutDoc(store, pending[s]) ELSE store
  /\ returned' = [op |-> "record", loadFailed |-> loadFailed[s],
                  block |-> pending[s], success |-> TRUE,
                  transactionHash |-> pending[s].hash]
  /\ receipts' = receipts \cup {pending[s].hash}
  /\ pending' = [pending EXCEPT ![s] = NoBlock]
  /\ chain' = [chain EXCEPT ![s] = <<>>]
  /\ pc' = [pc EXCEPT ![s] = "ready"]
  /\ loadFailed' = [loadFailed EXCEPT ![s] = FALSE]
  /\ UNCHANGED <<difficulty, now, ledgerChain, adds>>
  /\ UNCHANGED appVars

\* verifyBlockchain: one getDocs, then a local check.
VerifyBlockchain(ok) ==
  /\ StoreCall(ok)
  /\ LET loaded == loadFromFirebase(store, ok, now, difficulty)
     IN  returned' = [op |-> "verify", loadFailed |-> ~ok, chain |-> loaded,
                      valid |-> isChainValid(loaded),
                      blockCount |-> Len(loaded)]
  /\ UNCHANGED <<difficulty, now, store, pc, chain, pending, loadFailed,
                 receipts, ledgerChain, adds>>
  /\ UNCHANGED appVars

\* The filter and map of getElectionVotes.
ElectionVotes(c, e) ==
  LET votes == SelectSeq(c, LAMBDA b : /\ "type" \in DOMAIN b.data
                                       /\ b.data.type = "VOTE"
                                       /\ b.data.electionId = e)
  IN  [i \in 1..Len(votes) |->
         [blockIndex |-> votes[i].index, blockHash |-> votes[i].hash,
          candidateId |-> votes[i].data.candidateId,
          timestamp |-> votes[i].data.timestamp,
          voteHash |-> votes[i].data.voteHash]]

\* getElectionVotes: one getDocs, then a local filter.
GetElectionVotes(e, ok) ==
  /\ StoreCall(ok)
  /\ LET loaded == loadFromFirebase(store, ok, now, difficulty)
     IN  returned' = [op |-> "votes", loadFailed |-> ~ok, electionId |-> e,
                      votes |-> ElectionVotes(loaded, e)]
  /\ UNCHANGED <<difficulty, now, store, pc, chain, pending, loadFailed,
                 receipts, ledgerChain, adds>>
  /\ UNCHANGED appVars

\* initializeBlockchain saving a genesis whatever the snapshot holds.
InitQueryAlways(s, ok) ==
  /\ StoreCall(ok)
  /\ pc[s] = "ready"
  /\ LET genesis == createGenesisBlock(now, difficulty)
     IN  /\ chain' = [chain EXCEPT ![s] = <<genesis>>]
         /\ pending' = [pending EXCEPT ![s] = genesis]
         /\ pc' = [pc EXCEPT ![s] = "initput"]
  /\ UNCHANGED <<difficulty, now, store, loadFailed, returned, receipts,
                 ledgerChain, adds>>
  /\ UNCHANGED appVars

\* initializeBlockchain up to the setDoc call: the getDocs throws, or finds
\* blocks, or finds none and a new Blockchain() mines a genesis to save.
InitQuery(s, ok) ==
  /\ StoreCall(ok)
  /\ pc[s] = "ready"
  /\ IF ok /\ DOMAIN store = {}
     THEN LET genesis == createGenesisBlock(now, difficulty)
          IN  /\ chain' = [chain EXCEPT ![s] = <<genesis>>]
              /\ pending' = [pending EXCEPT ![s] = genesis]
              /\ pc' = [pc EXCEPT ![s] = "initput"]
              /\ UNCHANGED returned
     ELSE /\ returned' = [op |-> "init", loadFailed |-> ~ok,
                          success |-> ok]
          /\ UNCHANGED <<chain, pending, pc>>
  /\ UNCHANGED <<difficulty, now, store, loadFailed, receipts, ledgerChain,
                 adds>>
  /\ UNCHANGED appVars

\* The setDoc of the genesis lands or throws (caught and logged), then
\* initializeBlockchain returns success.
InitPut(s, ok) ==
  /\ StoreCall(ok)
  /\ pc[s] = "initput"
  /\ store' = IF ok THEN PutDoc(store, pending[s]) ELSE store
  /\ returned' = [op |-> "init", loadFailed |-> FALSE, block |-> pending[s],
                  success |-> TRUE]
  /\ pending' = [pending EXCEPT ![s] = NoBlock]
  /\ chain' = [chain EXCEPT ![s] = <<>>]
  /\ pc' = [pc EXCEPT ![s] = "ready"]
  /\ UNCHANGED <<difficulty, now, loadFailed, receipts, ledgerChain, adds>>
  /\ UNCHANGED appVars

\* Every store call succeeds.
NextNoFail ==
  \/ Tick
  \/ \E s \in Sessions, e \in Elections, c \in Candidates, v \in Voters :
        RecordLoad(s, e, c, v, TRUE)
  \/ \E s \in Sessions : RecordPut(s, TRUE)
  \/ VerifyBlockchain(TRUE)
  \/ \E e \in Elections : GetElectionVotes(e, TRUE)
  \/ \E s \in Sessions : InitQuery(s, TRUE)
  \/ \E s \in Sessions : InitPut(s, TRUE)

\* Some store call throws.
NextFail ==
  \/ \E s \in Sessions, e \in Elections, c \in Candidates, v \in Voters :
        RecordLoad(s, e, c, v, FALSE)
  \/ \E s \in Sessions : RecordPut(s, FALSE)
  \/ VerifyBlockchain(FALSE)
  \/ \E e \in Elections : GetElectionVotes(e, FALSE)
  \/ \E s \in Sessions : InitQuery(s, FALSE)
  \/ \E s \in Sessions : InitPut(s, FALSE)

Next == NextNoFail \/ NextFail

Spec == Init /\ [][Next]_vars
SpecNoFail == Init /\ [][NextNoFail]_vars

\* Recording and initializing only, every store call succeeding, on chains
\* of up to MaxChainIndex + 1 blocks.
NextReload ==
  \/ Tick
  \/ \E s \in Sessions, e \in Elections, c \in Candidates, v \in Voters :
        RecordLoadTo(s, e, c, v, TRUE, MaxChainIndex)
  \/ \E s \in Sessions : RecordPut(s, TRUE)
  \/ \E s \in Sessions : InitQuery(s, TRUE)
  \/ \E s \in Sessions : InitPut(s, TRUE)

SpecReload == Init /\ [][NextReload]_vars

\* ------------------------------------------------------ the results screen
\* blockchainVoteCounts.get(id) || 0: the votes of the list that name id.
BlockchainCount(votes, id) ==
  Cardinality({i \in 1..Len(votes) : votes[i].candidateId = id})

\* verifyVoteCounts(candidates, votes); candidates maps each listed
\* candidate id to its voteCount.
verifyVoteCounts(candidates, votes) ==
  IF DOMAIN candidates = {} THEN FALSE
  ELSE \A id \in DOMAIN candidates :
          BlockchainCount(votes, id) = candidates[id]

\* The candidate lists an election document can hold.
CandidateLists ==
  UNION {[ids -> 0..MaxVotes] : ids \in SUBSET Candidates}

\* fetchElectionData: the election document gives the candidates,
\* getElectionVotes the votes, verifyVoteCounts the verdict shown.
FetchElectionData(e, candidates, ok) ==
  /\ StoreCall(ok)
  /\ LET loaded == loadFromFirebase(store, ok, now, difficulty)
         votes == ElectionVotes(loaded, e)
     IN  returned' = [op |-> "results", loadFailed |-> ~ok, electionId |-> e,
                      candidates |-> candidates, votes |-> votes,
                      verified |-> verifyVoteCounts(candidates, votes)]
  /\ UNCHANGED <<difficulty, now, store, pc, chain, pending, loadFailed,
                 receipts, ledgerChain, adds>>
  /\ UNCHANGED appVars

\* One voter's device: initialize, record, then look at the results.
NextResults ==
  \/ Tick
  \/ \E s \in {1}, e \in Elections, c \in Candidates, v \in Voters :
        RecordLoad(s, e, c, v, TRUE)
  \/ \E s \in {1} : RecordPut(s, TRUE)
  \/ \E s \in {1} : InitQuery(s, TRUE)
  \/ \E s \in {1} : InitPut(s, TRUE)
  \/ VerifyBlockchain(TRUE)
  \/ \E e \in Elections, candidates \in CandidateLists :
        FetchElectionData(e, candidates, TRUE)

SpecResults == Init /\ [][NextResults]_vars

\* ------------------------------------------------- save, then load back
\* saveBlockToFirebase and loadFromFirebase alone: one caller holds blocks
\* with distinct indices in chain[1], in any order, saves them one by one in
\* that order, and loads the collection back at any moment.
SealedBlock(i, t, data) ==
  LET b == [index |-> i, timestamp |-> t, data |-> data,
            previousHash |-> <<"0">>, hash |-> <<>>, nonce |-> 0]
  IN  [b EXCEPT !.hash = calculateHash(b)]

SomeBlocks ==
  {SealedBlock(i, t, IF i = 0 THEN GenesisData
                     ELSE VoteData("E1", 1, "U1", t)) :
     i \in 0..MaxChainIndex, t \in 1..MaxTime}

BlockOrders ==
  {seq \in UNION {[1..n -> SomeBlocks] : n \in 0..MaxSaved} :
     \A i, j \in 1..Len(seq) : i # j => seq[i].index # seq[j].index}

InitRoundTrip ==
  /\ difficulty \in Difficulties
  /\ now = 1
  /\ store = EmptyStore
  /\ pc = [s \in Sessions |-> "ready"]
  /\ \E seq \in BlockOrders :
        chain = [s \in Sessions |-> IF s = 1 THEN seq ELSE <<>>]
  /\ pending = [s \in Sessions |-> NoBlock]
  /\ loadFailed = [s \in Sessions |-> FALSE]
  /\ returned = NoResult
  /\ receipts = {}
  /\ ledgerChain = <<>>
  /\ adds = 0
  /\ faults = 0
  /\ AppInit

\* saveBlockToFirebase(block) for the next block the caller holds.
SaveNext(s) ==
  /\ Cardinality(DOMAIN store) < Len(chain[s])
  /\ store' = PutDoc(store, chain[s][Cardinality(DOMAIN store) + 1])
  /\ UNCHANGED <<difficulty, now, pc, chain, pending, loadFailed, returned,
                 receipts, ledgerChain, adds, faults>>
  /\ UNCHANGED appVars

\* loadFromFirebase() on a new Blockchain; at is the time of the call, saved
\* the number of documents read.
LoadBack ==
  /\ returned' = [op |-> "load", loadFailed |-> FALSE, at |-> now,
                  saved |-> Cardinality(DOMAIN store),
                  chain |-> loadFromFirebase(store, TRUE, now, difficulty)]
  /\ UNCHANGED <<difficulty, now, store, pc, chain, pending, loadFailed,
                 receipts, ledgerChain, adds, faults>>
  /\ UNCHANGED appVars

\* getLatestBlock() on an object whose chain field holds the caller's
\* blocks (the field is public; the array may be empty).  The method is one
\* return statement and throws nothing.
GetLatest(s) ==
  /\ returned' = [op |-> "latest", loadFailed |-> FALSE, chain |-> chain[s],
                  threw |-> FALSE, value |-> getLatestBlock(chain[s])]
  /\ UNCHANGED <<difficulty, now, store, pc, chain, pending, loadFailed,
                 receipts, ledgerChain, adds, faults>>
  /\ UNCHANGED appVars

NextRoundTrip ==
  \/ Tick
  \/ \E s \in {1} : SaveNext(s)
  \/ LoadBack
  \/ \E s \in {1} : GetLatest(s)

SpecRoundTrip == InitRoundTrip /\ [][NextRoundTrip]_vars

\* ------------------------------------------------------- the voting flow
\* The voting screen mounts: getElectionById gives it the election document
\* of that moment, which it keeps for as long as it is shown.
ScreenOpen(s, v) ==
  /\ pc[s] = "ready"
  /\ v \notin election.voters
  /\ Len(transactions) + Cardinality({r \in Sessions : screen[r].open})
       < MaxVotes
  /\ screen' = [screen EXCEPT ![s] =
                  [open |-> TRUE, voter |-> v, voters |-> election.voters]]
  /\ pc' = [pc EXCEPT ![s] = "screen"]
  /\ UNCHANGED <<difficulty, now, store, chain, pending, loadFailed,
                 returned, receipts, ledgerChain, adds, faults, election,
                 transactions>>

\* handleVote / handleCastVote up to the first await: the has-voted test on
\* the election the screen holds, the screen's own createVoteHash, and the
\* call of recordVoteOnBlockchain (new Blockchain(), getDocs pending).
VoteSubmit(s, e, c) ==
  /\ pc[s] = "screen"
  /\ screen[s].voter \notin screen[s].voters
  /\ screen' = [screen EXCEPT ![s] =
                  [open |-> TRUE, voter |-> screen[s].voter,
                   voters |-> screen[s].voters, electionId |-> e,
                   candidate |-> c,
                   voteHash |-> createVoteHash(e, c, screen[s].voter, now)]]
  /\ pc' = [pc EXCEPT ![s] = "recording"]
  /\ UNCHANGED <<difficulty, now, store, chain, pending, loadFailed,
                 returned, receipts, ledgerChain, adds, faults, election,
                 transactions>>

\* recordVoteOnBlockchain from the return of getDocs to the setDoc call of
\* addBlock: load, its own createVoteHash, voteData, mine, push.
VoteRecordLoad(s, ok) ==
  /\ StoreCall(ok)
  /\ pc[s] = "recording"
  /\ LET loaded == loadFromFirebase(store, ok, now, difficulty)
         data == VoteData(screen[s].electionId, screen[s].candidate,
                          screen[s].voter, now)
         newBlock == NewBlock(loaded, data, now, difficulty)
     IN  /\ getLatestBlock(loaded).index < MaxChainIndex
         /\ chain' = [chain EXCEPT ![s] = Append(loaded, newBlock)]
         /\ pending' = [pending EXCEPT ![s] = newBlock]
  /\ pc' = [pc EXCEPT ![s] = "voteput"]
  /\ loadFailed' = [loadFailed EXCEPT ![s] = ~ok]
  /\ UNCHANGED <<difficulty, now, store, returned, receipts, ledgerChain,
                 adds, election, transactions, screen>>

\* The setDoc of saveBlockToFirebase lands or throws (caught and logged);
\* recordVoteOnBlockchain returns success and the screen calls castVote
\* (getDoc of the election pending).
VotePut(s, ok) ==
  /\ StoreCall(ok)
  /\ pc[s] = "voteput"
  /\ store' = IF ok THEN PutDoc(store, pending[s]) ELSE store
  /\ pc' = [pc EXCEPT ![s] = "cast"]
  /\ UNCHANGED <<difficulty, now, chain, pending, loadFailed, returned,
                 receipts, ledgerChain, adds, election, transactions, screen>>

\* The screen is left: the flow is over.
FlowEnd(s) ==
  /\ pc' = [pc EXCEPT ![s] = "ready"]
  /\ screen' = [screen EXCEPT ![s] = NoScreen]
  /\ pending' = [pending EXCEPT ![s] = NoBlock]
  /\ chain' = [chain EXCEPT ![s] = <<>>]
  /\ loadFailed' = [loadFailed EXCEPT ![s] = FALSE]

\* castVote: getDoc returns the election; a voter already listed gets the
\* error, otherwise the document read is kept and the transaction is sent.
CastRead(s) ==
  /\ pc[s] = "cast"
  /\ IF screen[s].voter \in election.voters
     THEN /\ FlowEnd(s)
          /\ returned' = [op |-> "cast", loadFailed |-> FALSE,
                          voter |-> screen[s].voter, success |-> FALSE]
     ELSE /\ screen' = [screen EXCEPT ![s] =
                          [f \in DOMAIN screen[s] \cup {"electionData"} |->
                             IF f = "electionData" THEN election
                             ELSE screen[s][f]]]
          /\ pc' = [pc EXCEPT ![s] = "casttx"]
          /\ UNCHANGED <<returned, pending, chain, loadFailed>>
  /\ UNCHANGED <<difficulty, now, store, receipts, ledgerChain, adds,
                 faults, election, transactions>>

\* castVote: the setDoc of the transactions record lands.  ledgerBlock is
\* not a field of the document: it names the block this flow's
\* recordVoteOnBlockchain made.
CastTx(s) ==
  /\ pc[s] = "casttx"
  /\ transactions' =
        Append(transactions,
               [electionId |-> screen[s].electionId,
                candidateId |-> screen[s].candidate,
                voterId |-> screen[s].voter,
                voteHash |-> screen[s].voteHash,
                ledgerBlock |-> pending[s]])
  /\ pc' = [pc EXCEPT ![s] = "castupd"]
  /\ UNCHANGED <<difficulty, now, store, chain, pending, loadFailed,
                 returned, receipts, ledgerChain, adds, faults, election,
                 screen>>

\* castVote: the updateDoc lands: the candidate's count becomes the count
\* read earlier plus one, the voter joins voters (arrayUnion).
CastUpdate(s) ==
  /\ pc[s] = "castupd"
  /\ election' =
        [voters |-> election.voters \cup {screen[s].voter},
         voteCount |->
           [election.voteCount EXCEPT ![screen[s].candidate] =
              screen[s].electionData.voteCount[screen[s].candidate] + 1]]
  /\ FlowEnd(s)
  /\ returned' = [op |-> "cast", loadFailed |-> FALSE,
                  voter |-> screen[s].voter, success |-> TRUE]
  /\ UNCHANGED <<difficulty, now, store, receipts, ledgerChain, adds,
                 faults, transactions>>

NextVote ==
  \/ Tick
  \/ \E s \in Sessions, v \in Voters : ScreenOpen(s, v)
  \/ \E s \in Sessions, e \in Elections, c \in Candidates :
        VoteSubmit(s, e, c)
  \/ \E s \in Sessions : VoteRecordLoad(s, TRUE)
  \/ \E s \in Sessions : VotePut(s, TRUE)
  \/ \E s \in Sessions : VotePut(s, FALSE)
  \/ \E s \in Sessions : CastRead(s)
  \/ \E s \in Sessions : CastTx(s)
  \/ \E s \in Sessions : CastUpdate(s)

\* The flow runs at the configured default difficulty.
InitVote == Init /\ difficulty = DefaultDifficulty

SpecVote == InitVote /\ [][NextVote]_vars

\* Recording only, every store call succeeding, on a store that
\* initializeBlockchain has given its genesis block.
InitRecord ==
  /\ difficulty \in Difficulties
  /\ now \in 1..MaxTime
  /\ store = PutDoc(EmptyStore, createGenesisBlock(1, difficulty))
  /\ pc = [s \in Sessions |-> "ready"]
  /\ chain = [s \in Sessions |-> <<>>]
  /\ pending = [s \in Sessions |-> NoBlock]
  /\ loadFailed = [s \in Sessions |-> FALSE]
  /\ returned = NoResult
  /\ receipts = {}
  /\ ledgerChain = <<>>
  /\ adds = 0
  /\ faults = 0
  /\ AppInit

NextRecord ==
  \/ Tick
  \/ \E s \in Sessions, e \in Elections, c \in Candidates, v \in Voters :
        RecordLoadTo(s, e, c, v, TRUE, MaxChainIndex)
  \/ \E s \in Sessions : RecordPut(s, TRUE)

SpecRecord == InitRecord /\ [][NextRecord]_vars

\* ------------------------------------------- writes from outside the app
\* The documents that differ from doc in exactly one field other than hash.
Tamperings(doc) ==
  LET others ==
        {[doc EXCEPT !.index = v] : v \in 0..(MaxIndex + 1)}
        \cup {[doc EXCEPT !.timestamp = [date |-> v]] : v \in 1..(MaxTime + 1)}
        \cup {[doc EXCEPT !.previousHash = v] : v \in {<<"0">>, doc.hash}}
        \cup {[doc EXCEPT !.nonce = v] : v \in {0, doc.nonce + 1}}
        \cup (IF "candidateId" \in DOMAIN doc.data
              THEN {[doc EXCEPT !.data.candidateId = v] : v \in Candidates}
              ELSE {})
  IN  others \ {doc}

\* The same rewrite with the hash field recomputed and no nonce search.
Rehashed(doc) == [doc EXCEPT !.hash = calculateHash(FromDoc(doc))]

\* Somebody with write access to the collection rewrites one document.
ExternalWrite(k, doc, rehash) ==
  /\ faults < MaxFaults
  /\ faults' = faults + 1
  /\ k \in DOMAIN store
  /\ doc \in Tamperings(store[k])
  /\ store' = [store EXCEPT ![k] = IF rehash THEN Rehashed(doc) ELSE doc]
  /\ UNCHANGED <<difficulty, now, pc, chain, pending, loadFailed, returned,
                 receipts, ledgerChain, adds>>
  /\ UNCHANGED appVars

\* One session of the app and the outside writer.
NextTamper ==
  \/ Tick
  \/ \E s \in {1}, e \in Elections, c \in Candidates, v \in Voters :
        RecordLoad(s, e, c, v, TRUE)
  \/ \E s \in {1} : RecordPut(s, TRUE)
  \/ \E s \in {1} : InitQuery(s, TRUE)
  \/ \E s \in {1} : InitPut(s, TRUE)
  \/ VerifyBlockchain(TRUE)
  \/ \E k \in DOMAIN store : \E doc \in Tamperings(store[k]) :
        ExternalWrite(k, doc, FALSE)
  \/ \E k \in DOMAIN store : \E doc \in Tamperings(store[k]) :
        ExternalWrite(k, doc, TRUE)

SpecTamper == Init /\ [][NextTamper]_vars

\* ------------------------------------- the Blockchain class, loop by loop
\* The class used directly by one caller, each pass of mineBlock's while loop
\* a step; pending holds the block inside mineBlock.  The difficulty is any
\* number the configuration can give, one past the digest prefix included.
\* Attempts within which every target of at most PrefixLen zeros is met.
MiningCap == Pow(Radix, PrefixLen)
MaxNonce == MiningCap + 1

InitMine ==
  /\ difficulty \in 0..(PrefixLen + 1)
  /\ now = 1
  /\ store = EmptyStore
  /\ pc = [s \in Sessions |-> "ready"]
  /\ chain = [s \in Sessions |-> <<>>]
  /\ pending = [s \in Sessions |-> NoBlock]
  /\ loadFailed = [s \in Sessions |-> FALSE]
  /\ returned = NoResult
  /\ receipts = {}
  /\ ledgerChain = <<>>
  /\ adds = 0
  /\ faults = 0
  /\ AppInit

\* this.mineBlock(block) is called.
MineEnter(s, block) ==
  /\ pc[s] = "ready"
  /\ pending' = [pending EXCEPT ![s] = block]
  /\ pc' = [pc EXCEPT ![s] = "mining"]
  /\ UNCHANGED <<difficulty, now, store, chain, loadFailed, returned,
                 receipts, ledgerChain, adds, faults>>
  /\ UNCHANGED appVars

\* new Blockchain(): createGenesisBlock up to its mineBlock call.
MineGenesis(s) ==
  /\ ledgerChain = <<>>
  /\ MineEnter(s, GenesisCandidate(now))

\* addBlock(data) up to its mineBlock call.
MineAddBlock(s, data) ==
  /\ ledgerChain # <<>>
  /\ adds < MaxAdds
  /\ MineEnter(s, BlockCandidate(ledgerChain, data, now))

\* One pass of the while loop: the test is true, nonce++, rehash.
MineStep(s) ==
  /\ pc[s] = "mining"
  /\ Substring0(pending[s].hash, difficulty) # ZeroString(difficulty)
  /\ pending[s].nonce < MaxNonce
  /\ LET b == [pending[s] EXCEPT !.nonce = pending[s].nonce + 1]
     IN  pending' = [pending EXCEPT ![s] = [b EXCEPT !.hash = calculateHash(b)]]
  /\ UNCHANGED <<difficulty, now, store, pc, chain, loadFailed, returned,
                 receipts, ledgerChain, adds, faults>>
  /\ UNCHANGED appVars

\* The loop test is false: mineBlock returns, the block is pushed, and
\* addBlock saves it (createGenesisBlock does not).
MineExit(s) ==
  /\ pc[s] = "mining"
  /\ Substring0(pending[s].hash, difficulty) = ZeroString(difficulty)
  /\ ledgerChain' = Append(ledgerChain, pending[s])
  /\ store' = IF ledgerChain = <<>> THEN store ELSE PutDoc(store, pending[s])
  /\ adds' = IF ledgerChain = <<>> THEN adds ELSE adds + 1
  /\ pending' = [pending EXCEPT ![s] = NoBlock]
  /\ pc' = [pc EXCEPT ![s] = "ready"]
  /\ UNCHANGED <<difficulty, now, chain, loadFailed, returned, receipts,
                 faults>>
  /\ UNCHANGED appVars

NextMine ==
  \/ Tick
  \/ \E s \in {1} : MineGenesis(s)
  \/ \E s \in {1}, e \in Elections, c \in Candidates, v \in Voters :
        MineAddBlock(s, VoteData(e, c, v, now))
  \/ \E s \in {1} : MineStep(s)
  \/ \E s \in {1} : MineExit(s)

SpecMine == InitMine /\ [][NextMine]_vars

\* ------------------------------------------------------------------ claims
HashStored(h) == \E k \in DOMAIN store : store[k].hash = h

\* The first d characters of hash exist and are all "0".
MeetsTarget(hash, d) == \A j \in 1..d : j <= Len(hash) /\ hash[j] = "0"

\* C1: whenever recordVoteOnBlockchain returns success with transactionHash h,
\* the store holds a block with hash h at the moment of return.  (The store
\* changes only in the step in which a call returns, so `returned` and
\* `store` are always of the same moment.)
ReceiptMeansStored ==
  (returned.op = "record" /\ returned.success)
     => HashStored(returned.transactionHash)

\* C2: when the load fails, recordVoteOnBlockchain mines nothing onto a
\* substitute chain, returns success = false and writes nothing.
LoadFailureFailsClosed ==
  /\ \A s \in Sessions : ~(pc[s] = "put" /\ loadFailed[s])
  /\ (returned.op = "record" /\ returned.loadFailed) => ~returned.success

\* C3: a document once written to the store stays there unchanged.
StoreAppendOnly ==
  [][\A k \in DOMAIN store : k \in DOMAIN store' /\ store'[k] = store[k]]_vars

\* C4: with no store failures, every transactionHash ever returned with
\* success is the hash of a stored block in every later state.
NoReceiptLost == \A h \in receipts : HashStored(h)

\* C5: after N addBlock calls on a fresh Blockchain the chain has N + 1
\* blocks, block i has index i, and each block's previousHash is the hash of
\* the block before it.
LedgerShape ==
  ledgerChain # <<>> =>
    /\ Len(ledgerChain) = adds + 1
    /\ \A i \in 1..Len(ledgerChain) : ledgerChain[i].index = i - 1
    /\ \A i \in 2..Len(ledgerChain) :
          ledgerChain[i].previousHash = ledgerChain[i - 1].hash

LedgerShapeWitness ==
  /\ adds >= 2
  /\ Len(ledgerChain) = adds + 1
  /\ difficulty > 0

\* C6: isChainValid is true of every chain built by createGenesisBlock and
\* addBlock alone, at every difficulty.
FreshChainValid == ledgerChain # <<>> => isChainValid(ledgerChain)

\* C7: in a chain that isChainValid accepts, changing one field other than
\* hash of a block that is not the genesis block (in the store before a
\* load, or in memory) gives a chain that isChainValid rejects.
TamperDetected ==
  /\ \A k \in DOMAIN store :
        (store[k].index # 0 /\ isChainValid(LoadedChain(store)))
          => \A doc \in Tamperings(store[k]) :
                ~isChainValid(LoadedChain([store EXCEPT ![k] = doc]))
  /\ \A s \in Sessions : \A i \in 1..Len(chain[s]) :
        (chain[s][i].index # 0 /\ isChainValid(chain[s]))
          => \A doc \in Tamperings(ToDoc(chain[s][i])) :
                ~isChainValid([chain[s] EXCEPT ![i] = FromDoc(doc)])

\* C8: verifyBlockchain reports a chain invalid when its first block is not
\* a genesis block (index 0, previousHash "0").
GenesisChecked ==
  (/\ returned.op = "verify"
   /\ ~(/\ returned.chain[1].index = 0
        /\ returned.chain[1].previousHash = <<"0">>))
     => ~returned.valid

\* C9: verifyBlockchain reports a chain invalid when one of its blocks after
\* the first has the recomputed hash and the right previousHash but a hash
\* that misses the difficulty target.
TargetChecked ==
  (/\ returned.op = "verify"
   /\ \E i \in 2..Len(returned.chain) :
         LET b == returned.chain[i]
         IN  /\ b.hash = calculateHash(b)
             /\ b.previousHash = returned.chain[i - 1].hash
             /\ ~MeetsTarget(b.hash, difficulty))
     => ~returned.valid

\* C10: every block that mineBlock has sealed, whatever the difficulty and
\* the payload, has a hash whose first `difficulty` characters are "0".
MinedMeetsTarget ==
  \A i \in 1..Len(ledgerChain) : MeetsTarget(ledgerChain[i].hash, difficulty)

MinedMeetsTargetWitness ==
  /\ difficulty = MaxDifficulty
  /\ \E i \in 2..Len(ledgerChain) : ledgerChain[i].nonce > 1

\* C11: every block made by createGenesisBlock or addBlock, at every
\* difficulty (0 included), has hash = calculateHash of its own fields with
\* its final nonce.
HashIsRecomputed ==
  \A i \in 1..Len(ledgerChain) :
     ledgerChain[i].hash = calculateHash(ledgerChain[i])

\* C12: mineBlock returns the smallest nonce from 0 on whose digest meets the
\* target: no smaller nonce, 0 included, gives the sealed block a digest that
\* meets it.
SmallestNonce ==
  \A i \in 1..Len(ledgerChain) :
     \A n \in 0..(ledgerChain[i].nonce - 1) :
        ~MeetsTarget(calculateHash([ledgerChain[i] EXCEPT !.nonce = n]),
                     difficulty)

\* C13: mineBlock always stops: the loop is never still running after more
\* than MiningCap attempts (it has sealed the block, or given up with
\* MiningExhausted).
MiningStops ==
  \A s \in Sessions : pc[s] = "mining" => pending[s].nonce <= MiningCap

TopKey(st) ==
  CHOOSE k \in DOMAIN st : \A j \in DOMAIN st : st[j].index <= st[k].index

\* C15: when getDocs succeeds on a non-empty store, the block that
\* recordVoteOnBlockchain appends has the highest stored index of that moment
\* plus one and the hash of that highest stored block as previousHash.
ExtendsStoredTop ==
  [][\A s \in Sessions :
       (/\ pc[s] = "ready" /\ pc'[s] = "put"
        /\ ~loadFailed'[s]
        /\ DOMAIN store # {})
         => /\ pending'[s].index = store[TopKey(store)].index + 1
            /\ pending'[s].previousHash = store[TopKey(store)].hash
            /\ chain'[s] = Append(LoadedChain(store), pending'[s])]_vars

ExtendsStoredTopWitness ==
  \E s \in Sessions :
     /\ pc[s] = "put" /\ ~loadFailed[s]
     /\ Cardinality(DOMAIN store) >= 2
     /\ pending[s].index = store[TopKey(store)].index + 1
     /\ pending[s].index >= 2
     /\ pending[s].previousHash = store[TopKey(store)].hash

\* C16: the cross-check reports a match only if every candidate the ledger
\* has a vote for is among the expected candidates and every expected count
\* equals the ledger's count.
CountsMatchOnlyIfSameCandidates ==
  (returned.op = "results" /\ returned.verified)
     => /\ \A i \in 1..Len(returned.votes) :
              returned.votes[i].candidateId \in DOMAIN returned.candidates
        /\ \A id \in DOMAIN returned.candidates :
              BlockchainCount(returned.votes, id) = returned.candidates[id]

\* Exactly one vote has been recorded with success, for candidate 1.
OneVoteRecorded ==
  /\ Cardinality(receipts) = 1
  /\ \E k \in DOMAIN store :
        /\ store[k].hash \in receipts
        /\ "type" \in DOMAIN store[k].data
        /\ store[k].data.candidateId = 1

\* The expected counts {1: 1, 2: 0}.
ExpectedOneVote == [id \in Candidates |-> IF id = 1 THEN 1 ELSE 0]

\* C17: from an empty store, after exactly one successful
\* recordVoteOnBlockchain for candidate 1 (initializeBlockchain run before or
\* not), verifyBlockchain reports valid with blockCount 2 and the cross-check
\* against {1: 1, 2: 0} reports a match.
OneVoteVerifies ==
  OneVoteRecorded =>
    /\ returned.op = "verify" =>
          returned.valid /\ returned.blockCount = 2
    /\ (returned.op = "results" /\ returned.candidates = ExpectedOneVote) =>
          returned.verified

\* C18: when the getDocs of verifyBlockchain throws, the result is
\* {valid: false, blockCount: 0}.
VerifyFailsClosed ==
  (returned.op = "verify" /\ returned.loadFailed)
     => ~returned.valid /\ returned.blockCount = 0

\* The payload has the six fields of voteData, the voter only as
\* SHA256(voterId) in voterIdHash and inside the voteHash digest, and no
\* field whose value is a voter id.
NoRawVoterId(data) ==
  /\ DOMAIN data = {"type", "electionId", "candidateId", "voterIdHash",
                    "voteHash", "timestamp"}
  /\ data.type \notin Voters
  /\ data.electionId \notin Voters
  /\ data.candidateId \in Candidates
  /\ data.timestamp \in 1..MaxTime
  /\ \E v \in Voters :
        /\ data.voterIdHash = SHA256(<<v>>)
        /\ data.voteHash = createVoteHash(data.electionId, data.candidateId,
                                           v, data.timestamp)
  /\ \A v \in Voters : data.voterIdHash # <<v>> /\ data.voteHash # <<v>>

\* C19: no payload that recordVoteOnBlockchain mines or writes holds the raw
\* voterId in any field; it holds voterIdHash = SHA256(voterId) and the
\* voteHash digest.
PayloadHidesVoter ==
  /\ \A k \in DOMAIN store :
        "type" \in DOMAIN store[k].data => NoRawVoterId(store[k].data)
  /\ \A s \in Sessions :
        pc[s] = "put" => NoRawVoterId(pending[s].data)

PayloadHidesVoterWitness ==
  \E k \in DOMAIN store :
     /\ "type" \in DOMAIN store[k].data
     /\ store[k].data.voterIdHash = SHA256(<<"U1">>)
     /\ store[k].hash \in receipts

\* C20: after the blocks chain[1][1..n], of distinct indices and in any
\* order, have been saved, loadFromFirebase yields exactly those blocks,
\* field for field, in ascending index order; on the empty store it yields
\* one freshly mined genesis block.
SavedComeBackInOrder ==
  returned.op = "load" =>
    LET n == returned.saved
        loaded == returned.chain
    IN  IF n = 0
        THEN loaded = <<createGenesisBlock(returned.at, difficulty)>>
        ELSE /\ Len(loaded) = n
             /\ \A i \in 1..(n - 1) : loaded[i].index < loaded[i + 1].index
             /\ {loaded[i] : i \in 1..n} = {chain[1][i] : i \in 1..n}

SavedComeBackInOrderWitness ==
  /\ returned.op = "load"
  /\ returned.saved = MaxSaved
  /\ Len(returned.chain) = MaxSaved
  /\ chain[1][1].index > chain[1][2].index
  /\ chain[1][2].index < chain[1][3].index
  /\ returned.chain[1] = chain[1][2]

\* C21: getLatestBlock on an empty chain fails with an EmptyChain error
\* rather than returning a value.
LatestOfEmptyThrows ==
  (returned.op = "latest" /\ returned.chain = <<>>) => returned.threw

\* The keys of the stored VOTE blocks of election e whose voterIdHash is
\* that of voter v.
VoteBlocksOf(e, v) ==
  {k \in DOMAIN store :
     /\ "type" \in DOMAIN store[k].data
     /\ store[k].data.type = "VOTE"
     /\ store[k].data.electionId = e
     /\ store[k].data.voterIdHash = SHA256(<<v>>)}

\* C22: for every election and every voter the stored ledger holds at most
\* one VOTE block with that electionId and that voter's voterIdHash.
OneBlockPerVoter ==
  \A e \in Elections, v \in Voters : Cardinality(VoteBlocksOf(e, v)) <= 1

\* C23: whenever a voter is in the election's voters list (and a candidate
\* count was incremented for it), the store holds a VOTE block of that
\* election with that voter's voterIdHash.
FlagMeansBlockStored ==
  \A e \in Elections, v \in election.voters : VoteBlocksOf(e, v) # {}

\* A key of the stored document with the lowest index.
BottomKey(st) ==
  CHOOSE k \in DOMAIN st : \A j \in DOMAIN st : st[k].index <= st[j].index

\* C24: whenever the store is non-empty, its lowest-index block is a genesis
\* block: index 0 and previousHash "0".
GenesisAlwaysStored ==
  DOMAIN store # {} =>
    /\ store[BottomKey(store)].index = 0
    /\ store[BottomKey(store)].previousHash = <<"0">>

\* C25: after one initializeBlockchain and one recordVoteOnBlockchain, in
\* any interleaving, the stored block 1 names the stored block 0 as its
\* predecessor, so the reloaded chain passes isChainValid.
InitRecordLinked ==
  (Cardinality(receipts) = 1 /\ DOMAIN store = {0, 1}) =>
    /\ store[1].previousHash = store[0].hash
    /\ (difficulty > 0 => isChainValid(LoadedChain(store)))

\* C26: on a store that starts with a valid chain, under concurrent
\* recordVoteOnBlockchain calls with no store failure, every stored block
\* after the first names the stored block before it: stored[i].previousHash
\* = stored[i - 1].hash.
StoredLinked ==
  \A k \in DOMAIN store :
     (k - 1) \in DOMAIN store => store[k].previousHash = store[k - 1].hash

\* C27: initializeBlockchain starts a write only when the collection is
\* empty, the write is the genesis block at key "0", and once a genesis is
\* stored no later call of the same caller rewrites it: of two calls in a
\* row the second writes nothing.
InitIdempotent ==
  [][\A s \in Sessions :
       /\ (pc[s] = "ready" /\ pc'[s] = "initput") => DOMAIN store = {}
       /\ (pc[s] = "initput" /\ pc'[s] = "ready") =>
             /\ pending[s].index = 0
             /\ store' = PutDoc(store, pending[s])
       /\ 0 \in DOMAIN store =>
             0 \in DOMAIN store' /\ store'[0] = store[0]]_vars

InitIdempotentWitness ==
  /\ returned.op = "init"
  /\ returned.success
  /\ "block" \notin DOMAIN returned
  /\ DOMAIN store = {0}
  /\ store[0].timestamp.date < now

\* The sum of the voteCount fields of the candidates in ids.
RECURSIVE CountSum(_, _)
CountSum(counts, ids) ==
  IF ids = {} THEN 0
  ELSE LET id == CHOOSE x \in ids : TRUE
       IN  counts[id] + CountSum(counts, ids \ {id})

\* C28: under concurrent castVote calls by different voters (no voter has
\* two transactions) the candidates' voteCount values add up to the number
\* of voter ids in the election's voters list.
CountsSumToVoters ==
  (\A i, j \in 1..Len(transactions) :
      i # j => transactions[i].voterId # transactions[j].voterId)
    => CountSum(election.voteCount, Candidates) = Cardinality(election.voters)

\* C29: the voteHash castVote stores in the transactions record is the
\* voteHash in the payload of the block recordVoteOnBlockchain made for the
\* same vote.
TransactionHashIsBlockHash ==
  \A i \in 1..Len(transactions) :
     transactions[i].voteHash = transactions[i].ledgerBlock.data.voteHash

\* C30: whenever the constructor, loadFromFirebase (read succeeded, found
\* nothing, or failed) or addBlock has set the object's chain, the chain has
\* at least one block.
ChainNeverEmpty ==
  [][ledgerChain' # ledgerChain => Len(ledgerChain') >= 1]_vars

\* A chain reseeded by a load whose read failed: the store holds blocks, yet
\* the object is back to a lone genesis block.
ChainNeverEmptyWitness ==
  /\ faults > 0
  /\ DOMAIN store # {}
  /\ adds >= 1
  /\ Len(ledgerChain) = 1
  /\ ledgerChain[1].index = 0

====
